---- MODULE Spec2Model ----
(***************************************************************************)
(* ntuity-collector: cmd/ntuity-collector/main.go.                         *)
(*                                                                         *)
(* main wires a Prometheus registry to GET /metrics, starts the collector  *)
(* (ten GaugeVecs registered, one goroutine that polls the energy-flow     *)
(* endpoint and sets nine of the gauges) and then serves HTTP.  The model  *)
(* has three interleaved activities: main, the publisher goroutine and the *)
(* scrape handler.                                                         *)
(*                                                                         *)
(* A *float64 and a *EnergyFlow are modelled as sequences of length <= 1:  *)
(* << >> is nil, <<v>> points to v.  float64 readings are modelled by      *)
(* integers (the code only copies them).  MetricValue.Time is decoded and  *)
(* never read, it is left out of MetricValue.                              *)
(***************************************************************************)
EXTENDS Integers, Sequences, FiniteSets, TLC

VARIABLES
    siteID,      \* *siteID, the -site-id flag (main.go:22)
    apiKey,      \* os.Getenv("NTUITY_API_KEY") (main.go:79)
    mainPc,      \* position of main()
    exitCode,    \* << >> while the process runs, <<c>> after os.Exit(c)
    handlers,    \* routes installed on the default mux by http.Handle
    listening,   \* TRUE once ListenAndServe has bound the listener
    registered,  \* names of the GaugeVecs registered with reg
    gauges,      \* GaugeVec name -> (site label value -> value of the child)
    pubPc,       \* position of the publisher goroutine
    idx,         \* the next of the nine if/else blocks the goroutine runs
    res,         \* the HTTP response held by retrieveEnergyFlow, as a sequence
    flow,        \* the goroutine's flow (*EnergyFlow)
    err,         \* the goroutine's err
    scrape,      \* the exposition written by the step just taken, as a sequence
    prev,        \* history: gauges as the last cycle that was followed by its
                 \* pause left them
    completed,   \* history: TRUE once a cycle has run its ninth if/else block
    written,     \* history: gauges set since the last fetch returned
    paused       \* history: seconds slept since the last gauge update

vars == <<siteID, apiKey, mainPc, exitCode, handlers, listening, registered,
          gauges, pubPc, idx, res, flow, err, scrape, prev, completed, written,
          paused>>

----------------------------------------------------------------------------
(* Bounds of the model *)

\* readings range over -MaxReading..MaxReading
MaxReading == 1
\* the integer counters range over 0..MaxCount
MaxCount == 1

----------------------------------------------------------------------------
(* Constants of the program *)

\* time.Sleep(time.Second * 60)
SleepSeconds == 60

\* os.Exit(1), and the code log.Fatal exits with
ExitFailure == 1

\* the exit code of a Go program that ends in a panic
PanicExit == 2

\* a nil error
Nil == "nil"

\* a map without entries: a GaugeVec without children, a JSON object
\* without the members in question
EmptyFcn == [x \in {} |-> x]

\* the json names of the ten MetricValue members of EnergyFlow, in order
MetricFields ==
    <<"power_consumption", "power_consumption_calc", "power_production",
      "power_storage", "power_grid", "power_charging_stations",
      "power_heating", "power_appliances", "state_of_charge",
      "self_sufficiency">>

\* the json names of the twelve int members of EnergyFlow
CounterFields ==
    {"consumers_total_count", "consumers_online_count",
     "producers_total_count", "producers_online_count",
     "storages_total_count", "storages_online_count",
     "heatings_total_count", "heatings_online_count",
     "charging_points_total_count", "charging_points_online_count",
     "grids_total_count", "grids_online_count"}

MetricNames == {MetricFields[i] : i \in DOMAIN MetricFields}

\* the Name of the ten GaugeVecs created and registered by the collector
GaugeNames ==
    {"power_consumption", "power_consumption_calc", "power_production",
     "power_storage", "power_grid", "power_charging_stations",
     "power_heating", "power_appliances", "state_of_charge",
     "self_sufficiency"}

\* the label names every GaugeVec is created with
LabelNames == {"site"}

\* Updates with the first block setting powerConsumption, from
\* flow.PowerConsumption
UpdatesRawGauge ==
    << [gauge |-> "power_consumption",       field |-> "power_consumption"],
       [gauge |-> "power_production",        field |-> "power_production"],
       [gauge |-> "power_storage",           field |-> "power_storage"],
       [gauge |-> "power_grid",              field |-> "power_grid"],
       [gauge |-> "power_charging_stations", field |-> "power_charging_stations"],
       [gauge |-> "power_heating",           field |-> "power_heating"],
       [gauge |-> "power_appliances",        field |-> "power_appliances"],
       [gauge |-> "state_of_charge",         field |-> "state_of_charge"],
       [gauge |-> "self_sufficiency",        field |-> "self_sufficiency"] >>

\* Updates with the power_consumption_calc block reading
\* flow.PowerConsumption
UpdatesRawField ==
    << [gauge |-> "power_consumption_calc",  field |-> "power_consumption"],
       [gauge |-> "power_production",        field |-> "power_production"],
       [gauge |-> "power_storage",           field |-> "power_storage"],
       [gauge |-> "power_grid",              field |-> "power_grid"],
       [gauge |-> "power_charging_stations", field |-> "power_charging_stations"],
       [gauge |-> "power_heating",           field |-> "power_heating"],
       [gauge |-> "power_appliances",        field |-> "power_appliances"],
       [gauge |-> "state_of_charge",         field |-> "state_of_charge"],
       [gauge |-> "self_sufficiency",        field |-> "self_sufficiency"] >>

\* Updates with the power_storage block reading flow.PowerProduction
UpdatesCopyPaste ==
    << [gauge |-> "power_consumption_calc",  field |-> "power_consumption_calc"],
       [gauge |-> "power_production",        field |-> "power_production"],
       [gauge |-> "power_storage",           field |-> "power_production"],
       [gauge |-> "power_grid",              field |-> "power_grid"],
       [gauge |-> "power_charging_stations", field |-> "power_charging_stations"],
       [gauge |-> "power_heating",           field |-> "power_heating"],
       [gauge |-> "power_appliances",        field |-> "power_appliances"],
       [gauge |-> "state_of_charge",         field |-> "state_of_charge"],
       [gauge |-> "self_sufficiency",        field |-> "self_sufficiency"] >>

\* the nine if/else blocks of the goroutine, in program order: the gauge
\* that is set and the EnergyFlow member it is set from
Updates ==
    << [gauge |-> "power_consumption_calc",  field |-> "power_consumption_calc"],
       [gauge |-> "power_production",        field |-> "power_production"],
       [gauge |-> "power_storage",           field |-> "power_storage"],
       [gauge |-> "power_grid",              field |-> "power_grid"],
       [gauge |-> "power_charging_stations", field |-> "power_charging_stations"],
       [gauge |-> "power_heating",           field |-> "power_heating"],
       [gauge |-> "power_appliances",        field |-> "power_appliances"],
       [gauge |-> "state_of_charge",         field |-> "state_of_charge"],
       [gauge |-> "self_sufficiency",        field |-> "self_sufficiency"] >>

----------------------------------------------------------------------------
(* The upstream response and its decoding *)

Readings == (0 - MaxReading)..MaxReading

\* a *float64
Pointers == {<< >>} \cup {<<v>> : v \in Readings}

\* MetricValue, without Time
MetricValue == [Value : Pointers]

\* the zero value of EnergyFlow (var flow EnergyFlow)
ZeroFlow ==
    [metrics |-> [f \in MetricNames |-> [Value |-> << >>]],
     counts  |-> [c \in CounterFields |-> 0]]

\* The metric members a JSON body carries: none, or one member f whose
\* "value" is null (<< >>) or a number.
JsonMetrics ==
    {EmptyFcn} \cup {f :> p : f \in MetricNames, p \in Pointers}

\* The counter members a JSON body carries: none, or all twelve.
JsonCounts ==
    {EmptyFcn} \cup {[c \in CounterFields |-> n] : n \in 1..MaxCount}

\* A response body.  kind "syntax": not valid JSON (empty, HTML, truncated);
\* kind "type": valid JSON with a member of the wrong JSON type, next to the
\* well typed members metrics and counts; kind "object": a JSON object with
\* the members metrics and counts, and with members EnergyFlow does not
\* have iff extra.
Bodies ==
    {[kind |-> "syntax", metrics |-> EmptyFcn, counts |-> EmptyFcn, extra |-> FALSE]}
    \cup [kind : {"type"}, metrics : JsonMetrics, counts : {EmptyFcn},
          extra : {FALSE}]
    \cup [kind : {"object"}, metrics : JsonMetrics, counts : JsonCounts,
          extra : BOOLEAN]

StatusCodes == {200, 401, 500}

\* What http.DefaultClient.Do and ioutil.ReadAll give: a transport error and
\* no response, or a response with a status code whose body either fails
\* to be read or is read as body.
Responses ==
    {[transport |-> "transport error", status |-> 0, read |-> Nil,
      body |-> [kind |-> "syntax", metrics |-> EmptyFcn, counts |-> EmptyFcn,
                extra |-> FALSE]]}
    \cup [transport : {Nil}, status : StatusCodes, read : {"read error"},
          body : {[kind |-> "syntax", metrics |-> EmptyFcn, counts |-> EmptyFcn,
                   extra |-> FALSE]}]
    \cup [transport : {Nil}, status : StatusCodes, read : {Nil}, body : Bodies]

\* json.Unmarshal(bs, &flow) on a zero EnergyFlow: a syntax error leaves flow
\* untouched; otherwise every well typed known member is stored, members
\* that are missing keep their zero value, unknown members are ignored, and
\* a member of the wrong type gives an error after the rest was stored.
Unmarshal(bs) ==
    IF bs.kind = "syntax"
    THEN [flow |-> ZeroFlow, err |-> "syntax error"]
    ELSE [flow |->
            [metrics |-> [f \in MetricNames |->
                            IF f \in DOMAIN bs.metrics
                            THEN [Value |-> bs.metrics[f]]
                            ELSE ZeroFlow.metrics[f]],
             counts  |-> [c \in CounterFields |->
                            IF c \in DOMAIN bs.counts
                            THEN bs.counts[c]
                            ELSE ZeroFlow.counts[c]]],
          err |-> IF bs.kind = "type" THEN "type error" ELSE Nil]

\* retrieveEnergyFlow with a check of the status code before decoding
retrieveEnergyFlowStatusChecked(r) ==
    IF r.transport # Nil
    THEN [flow |-> << >>, err |-> r.transport]
    ELSE IF r.status < 200 \/ r.status > 299
    THEN [flow |-> << >>, err |-> "status error"]
    ELSE IF r.read # Nil
    THEN [flow |-> << >>, err |-> r.read]
    ELSE LET u == Unmarshal(r.body)
         IN  IF u.err # Nil
             THEN [flow |-> << >>, err |-> u.err]
             ELSE [flow |-> <<u.flow>>, err |-> Nil]

\* retrieveEnergyFlow from the return of Do on: (*EnergyFlow, error)
retrieveEnergyFlow(r) ==
    IF r.transport # Nil
    THEN [flow |-> << >>, err |-> r.transport]
    ELSE IF r.read # Nil
    THEN [flow |-> << >>, err |-> r.read]
    ELSE LET u == Unmarshal(r.body)
         IN  IF u.err # Nil
             THEN [flow |-> << >>, err |-> u.err]
             ELSE [flow |-> <<u.flow>>, err |-> Nil]

----------------------------------------------------------------------------
(* The gauges *)

\* the value one if/else block passes to Set: the member's value, or
\* float64(0) when its Value is nil
SetArgument(fl, field) ==
    IF fl.metrics[field].Value # << >>
    THEN fl.metrics[field].Value[1]
    ELSE 0

\* WithLabelValuesSet with Add in the place of Set
WithLabelValuesAdd(vec, site, v) ==
    (site :> ((IF site \in DOMAIN vec THEN vec[site] ELSE 0) + v)) @@ vec

\* vec.WithLabelValues(site).Set(v): the child for site is created when it
\* does not exist, and holds v afterwards
WithLabelValuesSet(vec, site, v) == (site :> v) @@ vec

\* reg.Gather as promhttp writes it: one sample per child of every
\* registered GaugeVec; a GaugeVec without children contributes nothing
Gather(reg, gs) ==
    UNION {{[name |-> g, labels |-> [l \in LabelNames |-> s], value |-> gs[g][s]] :
                s \in DOMAIN gs[g]} : g \in reg}

----------------------------------------------------------------------------
(* Initial state: the process has been started with some flag and some     *)
(* environment, nothing has run yet.                                       *)

\* site identifiers with which fmt.Sprintf(baseURL, *siteID) is not a URL
\* http.NewRequest accepts (an invalid escape, a control character)
MalformedSiteIDs == {"%zz"}

SiteIDs == {"", "X"} \cup MalformedSiteIDs
ApiKeys == {"", "secret"}

Running == exitCode = << >>

Init ==
    /\ siteID \in SiteIDs
    /\ apiKey \in ApiKeys
    /\ mainPc = "start"
    /\ exitCode = << >>
    /\ handlers = {}
    /\ listening = FALSE
    /\ registered = {}
    /\ gauges = [g \in GaugeNames |-> EmptyFcn]
    /\ pubPc = "notStarted"
    /\ idx = 1
    /\ res = << >>
    /\ flow = << >>
    /\ err = Nil
    /\ scrape = << >>
    /\ prev = [g \in GaugeNames |-> EmptyFcn]
    /\ completed = FALSE
    /\ written = {}
    /\ paused = 0

----------------------------------------------------------------------------
(* main *)

\* flag.Parse; if len(*siteID) == 0 { log.Printf; os.Exit(1) }
CheckSiteID ==
    /\ Running
    /\ mainPc = "start"
    /\ IF siteID = ""
       THEN /\ exitCode' = <<ExitFailure>>
            /\ mainPc' = "exited"
       ELSE /\ exitCode' = exitCode
            /\ mainPc' = "wire"
    /\ scrape' = << >>
    /\ UNCHANGED <<siteID, apiKey, handlers, listening, registered, gauges,
                   pubPc, idx, res, flow, err, prev, completed, written, paused>>

\* reg := prometheus.NewRegistry(); http.Handle("/metrics", ...); log.Printf
Wire ==
    /\ Running
    /\ mainPc = "wire"
    /\ handlers' = handlers \cup {"/metrics"}
    /\ mainPc' = "collector"
    /\ scrape' = << >>
    /\ UNCHANGED <<siteID, apiKey, exitCode, listening, registered, gauges,
                   pubPc, idx, res, flow, err, prev, completed, written, paused>>

\* startNtuityMetricsCollector without the check of the api key
startCollectorWithoutKeyCheck ==
    /\ Running
    /\ mainPc = "collector"
    /\ registered' = registered \cup GaugeNames
    /\ pubPc' = "fetch"
    /\ mainPc' = "listen"
    /\ scrape' = << >>
    /\ UNCHANGED <<siteID, apiKey, exitCode, handlers, listening, gauges, idx,
                   res, flow, err, prev, completed, written, paused>>

\* startNtuityMetricsCollector(reg) and main's handling of its error: without
\* an api key it returns an error before anything is created and main exits;
\* otherwise the ten GaugeVecs are created without children and registered,
\* and the goroutine is started.
startNtuityMetricsCollector ==
    /\ Running
    /\ mainPc = "collector"
    /\ IF apiKey = ""
       THEN /\ exitCode' = <<ExitFailure>>
            /\ mainPc' = "exited"
            /\ UNCHANGED <<registered, pubPc>>
       ELSE /\ registered' = registered \cup GaugeNames
            /\ pubPc' = "fetch"
            /\ mainPc' = "listen"
            /\ exitCode' = exitCode
    /\ scrape' = << >>
    /\ UNCHANGED <<siteID, apiKey, handlers, listening, gauges, idx, res, flow,
                   err, prev, completed, written, paused>>

\* http.ListenAndServe binds the listener and serves
ListenAndServe ==
    /\ Running
    /\ mainPc = "listen"
    /\ listening' = TRUE
    /\ mainPc' = "serving"
    /\ scrape' = << >>
    /\ UNCHANGED <<siteID, apiKey, exitCode, handlers, registered, gauges,
                   pubPc, idx, res, flow, err, prev, completed, written, paused>>

\* http.ListenAndServe returns an error (the address cannot be bound):
\* log.Fatal exits
ListenAndServeFails ==
    /\ Running
    /\ mainPc = "listen"
    /\ exitCode' = <<ExitFailure>>
    /\ mainPc' = "exited"
    /\ scrape' = << >>
    /\ UNCHANGED <<siteID, apiKey, handlers, listening, registered, gauges,
                   pubPc, idx, res, flow, err, prev, completed, written, paused>>

----------------------------------------------------------------------------
(* The publisher goroutine *)

\* req, _ := http.NewRequest("GET", siteURL, nil) with a siteURL that does
\* not parse: the error is dropped, req is nil and req.Header.Add panics,
\* which ends the process
NewRequestPanics ==
    /\ Running
    /\ pubPc = "fetch"
    /\ siteID \in MalformedSiteIDs
    /\ exitCode' = <<PanicExit>>
    /\ scrape' = << >>
    /\ UNCHANGED <<siteID, apiKey, mainPc, handlers, listening, registered,
                   gauges, pubPc, idx, res, flow, err, prev, completed,
                   written, paused>>

\* HttpDo with the pause taken at the top of the loop, before the fetch
HttpDoAfterSleep ==
    /\ Running
    /\ pubPc = "fetch"
    /\ siteID \notin MalformedSiteIDs
    /\ \E r \in Responses : res' = <<r>>
    /\ pubPc' = "decode"
    /\ paused' = paused + SleepSeconds
    /\ scrape' = << >>
    /\ UNCHANGED <<siteID, apiKey, mainPc, exitCode, handlers, listening,
                   registered, gauges, idx, flow, err, prev, completed, written>>

\* retrieveEnergyFlow up to the return of http.DefaultClient.Do and
\* ioutil.ReadAll: the request is sent and the upstream answers
HttpDo ==
    /\ Running
    /\ pubPc = "fetch"
    /\ siteID \notin MalformedSiteIDs
    /\ \E r \in Responses : res' = <<r>>
    /\ pubPc' = "decode"
    /\ scrape' = << >>
    /\ UNCHANGED <<siteID, apiKey, mainPc, exitCode, handlers, listening,
                   registered, gauges, idx, flow, err, prev, completed, written, paused>>

\* RetrieveReturns with a failed fetch tried again instead of ending the
\* process
RetrieveReturnsRetry ==
    /\ Running
    /\ pubPc = "decode"
    /\ LET out == retrieveEnergyFlow(res[1])
       IN  /\ flow' = out.flow
           /\ err' = out.err
           /\ pubPc' = IF out.err # Nil THEN "fetch" ELSE "update"
           /\ written' = IF out.err # Nil THEN written ELSE {}
    /\ res' = << >>
    /\ idx' = 1
    /\ scrape' = << >>
    /\ UNCHANGED <<siteID, apiKey, mainPc, exitCode, handlers, listening,
                   registered, gauges, prev, completed, paused>>

\* retrieveEnergyFlow returns; flow, err := ...; if err != nil the goroutine
\* goes on to log and exit, otherwise to the first if/else block
RetrieveReturns ==
    /\ Running
    /\ pubPc = "decode"
    /\ LET out == retrieveEnergyFlow(res[1])
       IN  /\ flow' = out.flow
           /\ err' = out.err
           /\ pubPc' = IF out.err # Nil THEN "failed" ELSE "update"
           /\ written' = IF out.err # Nil THEN written ELSE {}
    /\ res' = << >>
    /\ idx' = 1
    /\ scrape' = << >>
    /\ UNCHANGED <<siteID, apiKey, mainPc, exitCode, handlers, listening,
                   registered, gauges, prev, completed, paused>>

\* log.Printf("Failed to collect metrics: %v", err); os.Exit(1)
FailFast ==
    /\ Running
    /\ pubPc = "failed"
    /\ exitCode' = <<ExitFailure>>
    /\ scrape' = << >>
    /\ UNCHANGED <<siteID, apiKey, mainPc, handlers, listening, registered,
                   gauges, pubPc, idx, res, flow, err, prev, completed, written, paused>>

\* one of the nine if/else blocks; after the ninth the goroutine is at
\* time.Sleep
SetGauge ==
    /\ Running
    /\ pubPc = "update"
    /\ LET u == Updates[idx]
       IN  /\ gauges' = [gauges EXCEPT ![u.gauge] =
                            WithLabelValuesSet(@, siteID, SetArgument(flow[1], u.field))]
           /\ written' = written \cup {u.gauge}
    /\ paused' = 0
    /\ IF idx = Len(Updates)
       THEN /\ pubPc' = "sleep"
            /\ idx' = 1
            /\ completed' = TRUE
       ELSE /\ pubPc' = pubPc
            /\ idx' = idx + 1
            /\ completed' = completed
    /\ scrape' = << >>
    /\ UNCHANGED <<siteID, apiKey, mainPc, exitCode, handlers, listening,
                   registered, res, flow, err, prev>>

\* time.Sleep(time.Second * 60), then the next iteration
Sleep ==
    /\ Running
    /\ pubPc = "sleep"
    /\ paused' = paused + SleepSeconds
    /\ prev' = gauges
    /\ pubPc' = "fetch"
    /\ scrape' = << >>
    /\ UNCHANGED <<siteID, apiKey, mainPc, exitCode, handlers, listening,
                   registered, gauges, idx, res, flow, err, completed, written>>

----------------------------------------------------------------------------
(* The scrape handler *)

\* GET /metrics, served by promhttp.HandlerFor(reg, ...): the samples
\* gathered from reg, with status 200
Scrape ==
    /\ Running
    /\ listening
    /\ "/metrics" \in handlers
    /\ scrape' = <<[status |-> 200, samples |-> Gather(registered, gauges)]>>
    /\ UNCHANGED <<siteID, apiKey, mainPc, exitCode, handlers, listening,
                   registered, gauges, pubPc, idx, res, flow, err, prev,
                   completed, written, paused>>

----------------------------------------------------------------------------

Publisher ==
    NewRequestPanics \/ HttpDo \/ RetrieveReturns \/ FailFast \/ SetGauge \/ Sleep

Next ==
    \/ CheckSiteID
    \/ Wire
    \/ startNtuityMetricsCollector
    \/ ListenAndServe
    \/ ListenAndServeFails
    \/ NewRequestPanics
    \/ HttpDo
    \/ RetrieveReturns
    \/ FailFast
    \/ SetGauge
    \/ Sleep
    \/ Scrape

Spec == Init /\ [][Next]_vars

----------------------------------------------------------------------------
(* What the properties below are stated in *)

\* the nine published fields, which name their gauges
NineGauges ==
    {"power_consumption_calc", "power_production", "power_storage",
     "power_grid", "power_charging_stations", "power_heating",
     "power_appliances", "state_of_charge", "self_sufficiency"}

\* what a snapshot reports for a field: its value, 0 when it is absent
FieldValue(fl, f) ==
    IF fl.metrics[f].Value = << >> THEN 0 ELSE fl.metrics[f].Value[1]

\* a gauge whose only child is the one of the site, holding v
OnlyChild(v) == [s \in {siteID} |-> v]

\* the sample of gauge g with the site label and value v
Sample(g, v) == [name |-> g, labels |-> [l \in {"site"} |-> siteID], value |-> v]

\* a response of the upstream for which the fetch has to fail
FetchFails(r) ==
    \/ r.transport # Nil
    \/ r.read # Nil
    \/ r.body.kind # "object"

\* the publisher goroutine is inside its loop
InLoop == pubPc \in {"fetch", "decode", "update", "sleep"}

----------------------------------------------------------------------------
(* C1 *)

\* C1: when a poll cycle has run its nine updates, every one of the nine
\* gauges has exactly the child of the site, and it holds the snapshot's
\* value for the field if present and 0 if absent, whatever it held before;
\* the same holds during the cycle for each gauge the cycle has already set.
C1_GaugeEqualsSnapshot ==
    /\ pubPc = "sleep" => (flow # << >> /\ written = NineGauges)
    /\ flow # << >> =>
          \A g \in written : gauges[g] = OnlyChild(FieldValue(flow[1], g))

\* A cycle has completed in which one gauge went from a non-zero value back
\* to 0 because its field is absent, and another shows a non-zero reading.
C1_Witness ==
    /\ pubPc = "sleep"
    /\ \E g \in NineGauges :
          /\ flow[1].metrics[g].Value = << >>
          /\ siteID \in DOMAIN prev[g]
          /\ prev[g][siteID] # 0
          /\ gauges[g][siteID] = 0
    /\ \E h \in NineGauges :
          /\ flow[1].metrics[h].Value # << >>
          /\ flow[1].metrics[h].Value[1] # 0
          /\ gauges[h][siteID] = flow[1].metrics[h].Value[1]

----------------------------------------------------------------------------
(* C2 *)

----------------------------------------------------------------------------
(* C3 *)

\* C3: a fetch that fails (transport error, unreadable body, body that does
\* not decode) is terminal.  The goroutine goes from the failed fetch to
\* log-and-exit without writing a gauge; from there the only step it has is
\* the exit with a non-zero code, the gauges being those the last completed
\* cycle left; and once the process has exited nothing is fetched or
\* written any more.
C3_FetchFailureIsTerminal ==
    /\ [](pubPc = "failed" =>
            /\ err # Nil
            /\ gauges = prev
            /\ (Running => ENABLED FailFast)
            /\ (~Running => exitCode[1] # 0))
    /\ [][ /\ (pubPc = "decode" /\ pubPc' # "decode" /\ FetchFails(res[1])) =>
                (pubPc' = "failed" /\ gauges' = gauges)
           /\ pubPc = "failed" =>
                /\ pubPc' = "failed"
                /\ gauges' = gauges
                /\ res' = res
                /\ (exitCode' # exitCode => exitCode' = <<ExitFailure>>)
           /\ ~Running =>
                (exitCode' = exitCode /\ gauges' = gauges /\ pubPc' = pubPc /\ res' = res)
         ]_vars

\* A malformed body was fetched after a completed cycle with a non-zero
\* reading; the process has exited with code 1 and the gauges are as that
\* cycle left them.
C3_Witness ==
    /\ pubPc = "failed"
    /\ err = "syntax error"
    /\ exitCode = <<ExitFailure>>
    /\ completed
    /\ \E g \in NineGauges : gauges[g] = OnlyChild(1)

----------------------------------------------------------------------------
(* C4 *)

\* C4: with an empty site identifier or an empty credential the process
\* never binds a listener, never starts the publisher goroutine and never
\* issues a fetch; main does not get past starting the collector, it keeps
\* a step to take until it has exited, and it exits with a non-zero code.
\* Without a site identifier not even the route is installed.
C4_MissingConfigExitsBeforeListening ==
    (siteID = "" \/ apiKey = "") =>
        /\ ~listening
        /\ pubPc = "notStarted"
        /\ res = << >>
        /\ registered = {}
        /\ mainPc \in {"start", "wire", "collector", "exited"}
        /\ (siteID = "" => handlers = {} /\ mainPc \in {"start", "exited"})
        /\ (mainPc = "exited" => exitCode # << >> /\ exitCode[1] # 0)
        /\ (mainPc # "exited" =>
                ENABLED (CheckSiteID \/ Wire \/ startNtuityMetricsCollector))

\* The site identifier is given, the credential is not: the process has
\* exited with code 1, nothing listens and no goroutine runs.
C4_Witness ==
    /\ siteID # ""
    /\ apiKey = ""
    /\ exitCode = <<ExitFailure>>
    /\ ~listening
    /\ pubPc = "notStarted"

----------------------------------------------------------------------------
(* C5 *)

\* C5: the goroutine starts at the fetch with no pause before it; it moves
\* fetch -> returned fetch -> nine updates -> pause -> fetch and leaves this
\* loop only through a failed fetch; a pause is taken only after the nine
\* updates of its cycle, is 60 seconds long and is the only pause between
\* those updates and the next fetch; and while the process runs and no fetch
\* has failed the goroutine always has its next step to take.
C5_LoopShape ==
    /\ [](/\ (Running /\ InLoop) => ENABLED Publisher
          /\ pubPc = "fetch" => paused = (IF completed THEN SleepSeconds ELSE 0)
          /\ pubPc = "update" => (paused = 0 \/ idx = 1)
          /\ pubPc = "sleep" => (paused = 0 /\ written = NineGauges))
    /\ [][ /\ (pubPc = "notStarted" /\ pubPc' # pubPc) =>
                (pubPc' = "fetch" /\ paused' = 0)
           /\ (pubPc = "fetch" /\ pubPc' # pubPc) =>
                (pubPc' = "decode" /\ paused' = paused)
           /\ (pubPc = "decode" /\ pubPc' # pubPc) =>
                /\ paused' = paused
                /\ pubPc' = (IF FetchFails(res[1]) THEN "failed" ELSE "update")
           /\ (pubPc = "update" /\ pubPc' # pubPc) =>
                (pubPc' = "sleep" /\ written' = NineGauges /\ Cardinality(written) = 8)
           /\ (pubPc = "sleep" /\ pubPc' # pubPc) =>
                (pubPc' = "fetch" /\ paused' = paused + 60)
           /\ paused' # paused => (pubPc = "sleep" \/ pubPc = "update")
         ]_vars

\* The second fetch is under way: one cycle has completed and exactly one
\* pause of 60 seconds lies between its updates and this fetch.
C5_Witness ==
    /\ pubPc = "decode"
    /\ completed
    /\ paused = 60
    /\ written = NineGauges

----------------------------------------------------------------------------
(* C6 *)

\* the time series a scrape would show: name and labels of every sample
Series(samples) == {[name |-> x.name, labels |-> x.labels] : x \in samples}

----------------------------------------------------------------------------
(* C7 *)

\* what a gauge holds for the site, a gauge without a child counted as 0
Holds(g) == IF siteID \in DOMAIN gauges[g] THEN gauges[g][siteID] ELSE 0

\* C7 as stated: in every state in which a snapshot has been fetched, each
\* of the nine gauges holds what the most recently fetched snapshot reports
\* for its field, 0 when the field is absent.
C7_GaugeAlwaysLatest ==
    flow # << >> =>
        \A g \in NineGauges : Holds(g) = FieldValue(flow[1], g)

\* C7 as amended: a gauge the current cycle has already set holds what the
\* most recently fetched snapshot reports for its field (0 when absent); a
\* gauge the current cycle has not set yet still is as the previous cycle
\* left it (without a child before the first cycle sets it); from the ninth
\* update of a cycle until the next fetch returns all nine gauges hold the
\* values of the most recently fetched snapshot; after a failed fetch the
\* gauges are as the last cycle left them.
C7_GaugeLatestOrPrevious ==
    /\ flow # << >> =>
          /\ \A g \in NineGauges :
                IF g \in written
                THEN gauges[g] = OnlyChild(FieldValue(flow[1], g))
                ELSE gauges[g] = prev[g]
          /\ (pubPc \in {"sleep", "fetch", "decode"} => written = NineGauges)
    /\ flow = << >> => gauges = prev
    /\ ~completed => \A g \in GaugeNames : prev[g] = EmptyFcn

\* In the middle of a later cycle a gauge not yet set holds the previous
\* cycle's value, which is not what the latest snapshot reports.
C7_Witness ==
    /\ pubPc = "update"
    /\ completed
    /\ written # {}
    /\ \E h \in NineGauges \ written :
          /\ gauges[h] = prev[h]
          /\ siteID \in DOMAIN gauges[h]
          /\ gauges[h][siteID] # FieldValue(flow[1], h)

----------------------------------------------------------------------------
(* C8 *)

\* C8: while the process runs and listens a scrape can be served in every
\* state, whatever the goroutine is doing, and the goroutine inside its loop
\* can take its step whether or not a scrape was just served; every value a
\* scrape shows for a gauge is the one the last completed cycle left in it
\* or the one the current cycle has set from its snapshot.
C8_ScrapeSeesPreviousOrCurrent ==
    /\ (Running /\ listening) => ENABLED Scrape
    /\ (Running /\ InLoop) => ENABLED Publisher
    /\ scrape # << >> =>
          \A x \in scrape[1].samples :
             \/ /\ siteID \in DOMAIN prev[x.name]
                /\ x.value = prev[x.name][siteID]
             \/ /\ flow # << >>
                /\ x.name \in written
                /\ x.value = FieldValue(flow[1], x.name)

\* A scrape between two gauge updates of a later cycle: one sample shows the
\* value the current cycle wrote, which differs from the previous cycle's,
\* and another sample shows the previous cycle's value, which differs from
\* what the current snapshot reports.
C8_Witness ==
    /\ scrape # << >>
    /\ pubPc = "update"
    /\ completed
    /\ \E x \in scrape[1].samples :
          x.name \in written /\ x.value # prev[x.name][siteID]
    /\ \E y \in scrape[1].samples :
          y.name \notin written /\ y.value # FieldValue(flow[1], y.name)

----------------------------------------------------------------------------
(* C9 *)

\* C9: the gauge of the raw power_consumption never gets a child, no gauge
\* is backed by a counter, and a step that changes the gauges changes one of
\* the nine published gauges, to the value of the published field of the
\* same name (0 when absent): neither the raw power_consumption nor a
\* counter of the snapshot goes into any gauge.
C9_RawAndCountersUnpublished ==
    /\ [](/\ gauges["power_consumption"] = EmptyFcn
          /\ written \subseteq NineGauges
          /\ DOMAIN gauges \cap CounterFields = {}
          /\ NineGauges = GaugeNames \ {"power_consumption"})
    /\ [][ gauges' # gauges =>
             \E g \in NineGauges :
                /\ gauges' = [gauges EXCEPT ![g] = OnlyChild(FieldValue(flow[1], g))]
                /\ flow' = flow
         ]_vars

\* A cycle has completed on a snapshot whose raw power_consumption is 1 and
\* whose counters are not 0: every published gauge reads 0 and the gauge of
\* the raw value has no child.
C9_Witness ==
    /\ pubPc = "sleep"
    /\ flow[1].metrics["power_consumption"].Value = <<1>>
    /\ \A c \in CounterFields : flow[1].counts[c] > 0
    /\ \A g \in NineGauges : gauges[g] = OnlyChild(0)
    /\ gauges["power_consumption"] = EmptyFcn

----------------------------------------------------------------------------
(* C10 *)

\* the snapshot a decodable body stands for: the members it carries, every
\* other metric absent and every other counter 0
Snapshot(bs) ==
    [metrics |-> [f \in MetricNames |->
                    [Value |-> IF f \in DOMAIN bs.metrics THEN bs.metrics[f] ELSE << >>]],
     counts  |-> [c \in CounterFields |->
                    IF c \in DOMAIN bs.counts THEN bs.counts[c] ELSE 0]]

\* C10: when retrieveEnergyFlow returns, exactly one of snapshot and error
\* is set; the error is set if and only if the transport failed, the body
\* could not be read or the body does not decode; otherwise the snapshot is
\* the complete decoded body; the status code of the response plays no
\* part.
C10_SnapshotOrError ==
    [][ (pubPc = "decode" /\ pubPc' # pubPc) =>
          /\ (err' # Nil) # (flow' # << >>)
          /\ (err' # Nil) <=> FetchFails(res[1])
          /\ ~FetchFails(res[1]) => flow' = <<Snapshot(res[1].body)>>
          /\ err' = (IF res[1].transport # Nil THEN "transport error"
                     ELSE IF res[1].read # Nil THEN "read error"
                     ELSE IF res[1].body.kind = "syntax" THEN "syntax error"
                     ELSE IF res[1].body.kind = "type" THEN "type error"
                     ELSE Nil)
      ]_vars

\* A response with status 500 and a decodable body carrying a reading is
\* about to be returned, and the return gives its snapshot and no error.
C10_Witness ==
    /\ pubPc = "decode"
    /\ res[1].status = 500
    /\ res[1].body.kind = "object"
    /\ res[1].body.metrics # EmptyFcn
    /\ ENABLED (RetrieveReturns /\ err' = Nil /\ flow' = <<Snapshot(res[1].body)>>)

====
